---- MODULE Spec2Model ----
(***************************************************************************)
(* Model of src/journal/journald-syslog.c: the syslog ingestion path, the  *)
(* RFC5424 synthesizer, the local relay forwarder, the remote forwarder    *)
(* and the loss-warning throttle.                                          *)
(*                                                                         *)
(* C strings are sequences of one-character strings.  errno values are     *)
(* strings ("OK" stands for a sendmsg() that returned >= 0).               *)
(***************************************************************************)
EXTENDS Integers, Sequences, FiniteSets, TLC

VARIABLES
    n_forward_syslog_missed,          \* Server.n_forward_syslog_missed
    last_warn_forward_syslog_missed,  \* Server.last_warn_forward_syslog_missed
    remote_syslog_fd,                 \* Server.remote_syslog_fd
    remote_syslog_dest,               \* Server.remote_syslog_dest (configuration)
    forward_to_syslog,                \* Server.forward_to_syslog (configuration)
    forward_to_remote_syslog,         \* Server.forward_to_remote_syslog (configuration)
    clock,                            \* now(CLOCK_MONOTONIC), in usec
    pc,                               \* position of the handler being run
    cur,                              \* the message the running handler forwards
    op,                               \* the function that ran in the last step
    sent,                             \* sendmsg() calls made by the last step
                                      \* (fragment count in place of the payload)
    logged,                           \* log_debug/warning/error lines of the last step
    created,                          \* socket() calls made by the last step
    received,                         \* datagram the last step was called with, and
                                      \* whether its localtime_r() succeeded
    dispatched,                       \* fields handed to server_dispatch_message
    driver_messages,                  \* all server_driver_message() calls so far
    n_eagain,                         \* local sends that ended in EAGAIN so far
    n_warn_non_inet,                  \* "non AF_INET target" warnings so far
    syslog_fd,                        \* Server.syslog_fd, the ingestion socket
    setup,                            \* return value and system calls of the
                                      \* server_open_syslog_socket of the last step
    call,                             \* a parser or synthesizer call: function
                                      \* and arguments
    result                            \* what that call returned

vars == <<n_forward_syslog_missed, last_warn_forward_syslog_missed,
          remote_syslog_fd, remote_syslog_dest, forward_to_syslog,
          forward_to_remote_syslog, clock, pc, cur, op, sent, logged, created,
          received, dispatched, driver_messages, n_eagain, n_warn_non_inet,
          syslog_fd, setup, call, result>>

----------------------------------------------------------------------------
(* Bounds of the model *)

MaxMissed == 2
MaxClock == 60000000
MaxWarn == 2

----------------------------------------------------------------------------
(* Program constants *)

USEC_PER_SEC == 1000000
WARN_FORWARD_SYSLOG_MISSED_USEC == 30 * USEC_PER_SEC

\* getpid(): the daemon's own process id
DaemonPid == 1

NoCred == [pid |-> 0, uid |-> 0, gid |-> 0, null |-> TRUE]
Cred(p, u, g) == [pid |-> p, uid |-> u, gid |-> g, null |-> FALSE]

\* the credentials a caller may hand in (ucred may be NULL)
Ucreds == {NoCred, Cred(1234, 1000, 100)}

\* outcomes of one sendmsg() on the local relay socket
SendResults == {"OK", "EAGAIN", "EPERM", "ESRCH", "ENOENT", "ECONNREFUSED"}

\* clock advances between two steps
Deltas == {WARN_FORWARD_SYSLOG_MISSED_USEC - 1, WARN_FORWARD_SYSLOG_MISSED_USEC}

----------------------------------------------------------------------------
(* forward_syslog_iovec *)

SendCall(fd, iovec, ucred, res) ==
    [fd |-> fd, iov |-> iovec, cred |-> ucred, res |-> res]

\* lines 87 and 106: n_forward_syslog_missed++
CountMissed_Forgotten(missed) == missed

CountMissed(missed) == missed + 1

\* line 91: the condition of the credential retry
ShouldRetry_NoCredCheck(ucred, e) == e \in {"ESRCH", "EPERM"}

ShouldRetry(ucred, e) == ~ucred.null /\ e \in {"ESRCH", "EPERM"}

\* lines 98-100: the credentials of the retry
RetryCred(ucred) == [ucred EXCEPT !.pid = DaemonPid]

\* lines 111-112: the trailing diagnostic
ForwardFailedLog_Always(e) ==
    <<[level |-> "debug", msg |-> "Failed to forward syslog message", errno |-> e]>>

ForwardFailedLog_Never(e) == <<>>

ForwardFailedLog(e) ==
    IF e # "ENOENT"
    THEN <<[level |-> "debug", msg |-> "Failed to forward syslog message", errno |-> e]>>
    ELSE <<>>

\* The result of one call: the new Loss Counter, the sendmsg() calls made and
\* the lines logged.  r1 and r2 are the outcomes of the first and (if it is
\* made) second sendmsg().
forward_syslog_iovec(missed, iovec, ucred, r1, r2) ==
    LET first == SendCall("syslog_fd", iovec, ucred, r1)
    IN  IF r1 = "OK"
        THEN [missed |-> missed, sent |-> <<first>>, logged |-> <<>>]
        ELSE IF r1 = "EAGAIN"
        THEN [missed |-> CountMissed(missed), sent |-> <<first>>, logged |-> <<>>]
        ELSE IF ShouldRetry(ucred, r1)
        THEN LET second == SendCall("syslog_fd", iovec, RetryCred(ucred), r2)
             IN  IF r2 = "OK"
                 THEN [missed |-> missed, sent |-> <<first, second>>, logged |-> <<>>]
                 ELSE IF r2 = "EAGAIN"
                 THEN [missed |-> CountMissed(missed), sent |-> <<first, second>>,
                       logged |-> <<>>]
                 ELSE [missed |-> missed, sent |-> <<first, second>>,
                       logged |-> ForwardFailedLog(r2)]
        ELSE [missed |-> missed, sent |-> <<first>>, logged |-> ForwardFailedLog(r1)]

----------------------------------------------------------------------------
(* maybe_open_remote_syslog, forward_remote_syslog_iovec *)

\* the configured remote targets: s_addr is INADDR_NONE when none is configured
RemoteDests ==
    [addr : {"INADDR_NONE", "192.0.2.1"}, family : {"AF_INET", "AF_INET6"}]

\* results of socket(): -1 is a failure, the others are descriptors
SocketResults == {-1, 0, 5}

\* line 120: the handle is reused when it is already open
IsOpen(fd) == fd > 0

\* The result of one call: the value returned, the new handle, the lines
\* logged and the socket() calls made.  newfd is what socket() returns if it
\* is called.
maybe_open_remote_syslog(fd, dest, newfd) ==
    IF IsOpen(fd)
    THEN [ret |-> fd, fd |-> fd, logged |-> <<>>, created |-> <<>>]
    ELSE IF dest.addr = "INADDR_NONE"
    THEN [ret |-> 0, fd |-> fd, logged |-> <<>>, created |-> <<>>]
    ELSE LET configured == [level |-> "warning",
                            msg |-> "remote syslog forwarding target configured",
                            errno |-> "OK"]
         IN  IF dest.family # "AF_INET"
             THEN [ret |-> 0, fd |-> fd,
                   logged |-> <<configured,
                                [level |-> "warning",
                                 msg |-> "non AF_INET target for remote syslog forwarding configured. ignoring.",
                                 errno |-> "OK"]>>,
                   created |-> <<>>]
             ELSE IF newfd < 0
             THEN [ret |-> 0, fd |-> fd,
                   logged |-> <<configured,
                                [level |-> "error",
                                 msg |-> "socket() failed for remote syslog forwarding",
                                 errno |-> "OK"]>>,
                   created |-> <<newfd>>]
             ELSE [ret |-> newfd, fd |-> newfd, logged |-> <<configured>>,
                   created |-> <<newfd>>]

\* lines 157-159: the result of the remote sendmsg() is ignored
RemoteSendCalls_Retry(fd, iovec, r) ==
    IF r = "OK"
    THEN <<[fd |-> fd, iov |-> iovec, cred |-> NoCred, res |-> r]>>
    ELSE <<[fd |-> fd, iov |-> iovec, cred |-> NoCred, res |-> r],
           [fd |-> fd, iov |-> iovec, cred |-> NoCred, res |-> r]>>

RemoteSendCalls(fd, iovec, r) ==
    <<[fd |-> fd, iov |-> iovec, cred |-> NoCred, res |-> r]>>

\* The result of one call.  r is the outcome of the sendmsg(), if it is made.
forward_remote_syslog_iovec(fd, dest, iovec, newfd, r) ==
    LET o == maybe_open_remote_syslog(fd, dest, newfd)
    IN  IF o.ret = 0
        THEN [fd |-> o.fd, sent |-> <<>>, logged |-> o.logged, created |-> o.created]
        ELSE [fd |-> o.fd, sent |-> RemoteSendCalls(o.ret, iovec, r),
              logged |-> o.logged, created |-> o.created]

----------------------------------------------------------------------------
(* server_maybe_warn_forward_syslog_missed *)

\* line 571: fewer than 30 s since the last warning
TooSoon_Never(last, n) == FALSE

TooSoon_Inclusive(last, n) == last + WARN_FORWARD_SYSLOG_MISSED_USEC >= n

TooSoon(last, n) == last + WARN_FORWARD_SYSLOG_MISSED_USEC > n

\* lines 576-577: the state after a warning
AfterWarn_KeepCount(missed, n) == [missed |-> missed, last |-> n]

AfterWarn(missed, n) == [missed |-> 0, last |-> n]

\* lines 571-572: the timestamp after a call that came too soon
WhenTooSoon_Stamp(last, n) == n

WhenTooSoon(last, n) == last

\* The result of one call at time n: the new counter and timestamp and the
\* driver messages emitted.
server_maybe_warn_forward_syslog_missed(missed, last, n) ==
    IF missed <= 0
    THEN [missed |-> missed, last |-> last, emitted |-> <<>>]
    ELSE IF TooSoon(last, n)
    THEN [missed |-> missed, last |-> WhenTooSoon(last, n), emitted |-> <<>>]
    ELSE [missed |-> AfterWarn(missed, n).missed, last |-> AfterWarn(missed, n).last,
          emitted |-> <<[id |-> "SD_MESSAGE_FORWARD_SYSLOG_MISSED",
                         value |-> missed, time |-> n]>>]

----------------------------------------------------------------------------
(* C strings *)

NUL == "\\0"
NullStr == <<"(null)">>

WHITESPACE == {" ", "\t", "\n", "\r"}
DigitChars == <<"0", "1", "2", "3", "4", "5", "6", "7", "8", "9">>
Digits == {DigitChars[i] : i \in 1..10}
Letters ==
    {"a", "b", "c", "d", "e", "f", "g", "h", "i", "j", "k", "l", "m", "n", "o",
     "p", "q", "r", "s", "t", "u", "v", "w", "x", "y", "z",
     "A", "B", "C", "D", "E", "F", "G", "H", "I", "J", "K", "L", "M", "N", "O",
     "P", "Q", "R", "S", "T", "U", "V", "W", "X", "Y", "Z"}

\* what a read of an address outside the mapped memory yields
SEGV == "SIGSEGV"

\* the byte at offset i of the NUL-terminated string s; "front" is the memory
\* that lies in front of the buffer (its last byte is at offset -1), and a
\* read in front of that leaves the mapped memory
CharAt(s, i, front) ==
    IF i < -Len(front) THEN SEGV
    ELSE IF i < 0 THEN front[Len(front) + 1 + i]
    ELSE IF i < Len(s) THEN s[i + 1] ELSE NUL

\* the string starting at offset i
StrFrom(s, i) == IF i >= Len(s) THEN <<>> ELSE SubSeq(s, i + 1, Len(s))

\* strndup(s + i, n)
StrNDup(s, i, n) ==
    LET last == IF i + n > Len(s) THEN Len(s) ELSE i + n
    IN  IF n <= 0 \/ i >= Len(s) THEN <<>> ELSE SubSeq(s, i + 1, last)

RECURSIVE strspn(_, _, _)
strspn(s, i, set) ==
    IF i < Len(s) /\ s[i + 1] \in set THEN 1 + strspn(s, i + 1, set) ELSE 0

RECURSIVE strcspn(_, _, _)
strcspn(s, i, set) ==
    IF i < Len(s) /\ s[i + 1] \notin set THEN 1 + strcspn(s, i + 1, set) ELSE 0

\* undecchar(): the value of a decimal digit, or -1
undecchar(c) ==
    IF c \in Digits THEN (CHOOSE i \in 1..10 : DigitChars[i] = c) - 1 ELSE -1

\* sprintf("%i") of a non-negative int
RECURSIVE ItoA(_)
ItoA(n) ==
    IF n < 10 THEN <<DigitChars[n + 1]>>
    ELSE ItoA(n \div 10) \o <<DigitChars[(n % 10) + 1]>>

RECURSIVE AtoI(_)
AtoI(s) ==
    IF s = <<>> THEN 0
    ELSE 10 * AtoI(SubSeq(s, 1, Len(s) - 1)) + undecchar(s[Len(s)])

----------------------------------------------------------------------------
(* priority arithmetic of <syslog.h> *)

LOG_PRIMASK == 7
LOG_USER == 8
LOG_INFO == 6

\* priority & LOG_PRIMASK
LOG_PRI(p) == p % 8
\* (priority & LOG_FACMASK) >> 3, LOG_FACMASK being 0x03f8
LOG_FAC(p) == (p % 1024) \div 8

----------------------------------------------------------------------------
(* syslog_parse_priority (shared/syslog-util.c), called with_facility = true *)

HasChar(s, i, c) == \E j \in (i + 1)..Len(s) : s[j] = c

syslog_parse_priority(s, pos, priority) ==
    LET unchanged == [pos |-> pos, priority |-> priority]
        c1 == undecchar(CharAt(s, pos + 1, <<>>))
        c2 == undecchar(CharAt(s, pos + 2, <<>>))
        c3 == undecchar(CharAt(s, pos + 3, <<>>))
    IN  IF CharAt(s, pos, <<>>) # "<" THEN unchanged
        ELSE IF ~HasChar(s, pos, ">") THEN unchanged
        ELSE IF CharAt(s, pos + 2, <<>>) = ">"
        THEN IF c1 < 0 THEN unchanged
             ELSE [pos |-> pos + 3, priority |-> c1]
        ELSE IF CharAt(s, pos + 3, <<>>) = ">"
        THEN IF c1 < 0 \/ c2 < 0 THEN unchanged
             ELSE [pos |-> pos + 4, priority |-> c1 * 10 + c2]
        ELSE IF CharAt(s, pos + 4, <<>>) = ">"
        THEN IF c1 < 0 \/ c2 < 0 \/ c3 < 0 THEN unchanged
             ELSE [pos |-> pos + 5, priority |-> c1 * 100 + c2 * 10 + c3]
        ELSE unchanged

----------------------------------------------------------------------------
(* syslog_skip_date *)

\* lines 355-366
sequence_NoTrailingSpace ==
    <<"LETTER", "LETTER", "LETTER",
      "SPACE",
      "SPACE_OR_NUMBER", "NUMBER",
      "SPACE",
      "SPACE_OR_NUMBER", "NUMBER",
      "COLON",
      "SPACE_OR_NUMBER", "NUMBER",
      "COLON",
      "SPACE_OR_NUMBER", "NUMBER">>

sequence ==
    <<"LETTER", "LETTER", "LETTER",
      "SPACE",
      "SPACE_OR_NUMBER", "NUMBER",
      "SPACE",
      "SPACE_OR_NUMBER", "NUMBER",
      "COLON",
      "SPACE_OR_NUMBER", "NUMBER",
      "COLON",
      "SPACE_OR_NUMBER", "NUMBER",
      "SPACE">>

\* lines 381-412: whether the byte c is of the class cls
ClassMatches(cls, c) ==
    CASE cls = "SPACE" -> c = " "
      [] cls = "SPACE_OR_NUMBER" -> c = " " \/ c \in Digits
      [] cls = "NUMBER" -> c \in Digits
      [] cls = "LETTER" -> c \in Letters
      [] cls = "COLON" -> c = ":"

\* the "return" statements inside the loop: *buf keeps its value, whatever
\* p has advanced to
OnMismatch_KeepPartial(pos, p) == p

OnMismatch(pos, p) == pos

\* lines 376-415: the loop from index i on, and the cursor the call leaves
RECURSIVE DateScan(_, _, _)
DateScan(s, pos, i) ==
    IF i >= Len(sequence) THEN pos + i
    ELSE IF CharAt(s, pos + i, <<>>) = NUL THEN OnMismatch(pos, pos + i)
    ELSE IF ~ClassMatches(sequence[i + 1], CharAt(s, pos + i, <<>>))
    THEN OnMismatch(pos, pos + i)
    ELSE DateScan(s, pos, i + 1)

\* the cursor after the call
syslog_skip_date(s, pos) == DateScan(s, pos, 0)

----------------------------------------------------------------------------
(* syslog_parse_identifier *)

\* lines 321-336: the backward scan for '[' from p[k]; k is kept as a signed
\* offset, so k = -1 is the wrapped-around size_t.  oob: the scan read in
\* front of the buffer; crashed: it ran out of the mapped memory.
RECURSIVE ScanBracket(_, _, _, _)
ScanBracket(s, p, k, front) ==
    IF CharAt(s, p + k, front) = SEGV
    THEN [found |-> FALSE, k |-> k, oob |-> TRUE, crashed |-> TRUE]
    ELSE IF CharAt(s, p + k, front) = "["
    THEN [found |-> TRUE, k |-> k, oob |-> p + k < 0, crashed |-> FALSE]
    ELSE IF k = 0
    THEN [found |-> FALSE, k |-> k, oob |-> FALSE, crashed |-> FALSE]
    ELSE ScanBracket(s, p, k - 1, front)

\* strndup(p, l) with l a size_t: a wrapped-around l copies up to the NUL
IdentDup(s, p, l) == IF l < 0 THEN StrFrom(s, p) ELSE StrNDup(s, p, l)

\* line 333: strndup(p+k+1, l-k-2), which may start in front of the buffer
PidDup(s, i, n, front) == [j \in 1..n |-> CharAt(s, i + j - 1, front)]

\* lines 311-312: the token is no "identifier:" header
NotHeader_NoColonCheck(s, p, l, front) == l <= 0

NotHeader(s, p, l, front) == l <= 0 \/ CharAt(s, p + l - 1, front) # ":"

\* The result of one call on the string s with the cursor at offset pos:
\* the value returned, the new cursor, identifier and pid (NullStr when not
\* set).  oob: the call read in front of the buffer (p[l-1] with l = 0);
\* crashed: such a read left the mapped memory.
syslog_parse_identifier(s, pos, front) ==
    LET p == pos + strspn(s, pos, WHITESPACE)
        l0 == strcspn(s, p, WHITESPACE)
        e == l0
        l == l0 - 1
        e2 == e + strspn(s, p + e, WHITESPACE)
        last == CharAt(s, p + l - 1, front)
        scan == ScanBracket(s, p, l - 1, front)
    IN  IF NotHeader(s, p, l0, front)
        THEN [ret |-> 0, pos |-> pos, identifier |-> NullStr, pid |-> NullStr,
              oob |-> FALSE, crashed |-> FALSE]
        ELSE IF last = SEGV \/ (last = "]" /\ scan.crashed)
        THEN [ret |-> 0, pos |-> pos, identifier |-> NullStr, pid |-> NullStr,
              oob |-> TRUE, crashed |-> TRUE]
        ELSE IF last = "]" /\ scan.found
        THEN [ret |-> e2, pos |-> p + e2,
              identifier |-> IdentDup(s, p, scan.k),
              pid |-> PidDup(s, p + scan.k + 1, l - scan.k - 2, front),
              oob |-> p + l - 1 < 0, crashed |-> FALSE]
        ELSE [ret |-> e2, pos |-> p + e2,
              identifier |-> IdentDup(s, p, l), pid |-> NullStr,
              oob |-> p + l - 1 < 0, crashed |-> FALSE]

----------------------------------------------------------------------------
(* syslog_init_message, syslog_fill_iovec *)

Dash == <<"-">>

syslog_init_message ==
    [priority |-> 14, procid |-> 0, hostname |-> Dash, appname |-> Dash,
     msgid |-> Dash, message |-> Dash]

\* lines 185-186: limit facility to 0..23
ClampPriority_DropSeverity(priority) ==
    IF priority \div 8 > 23 THEN 23 * 8 ELSE priority

ClampPriority(priority) ==
    IF priority \div 8 > 23 THEN (priority % 8) + 23 * 8 ELSE priority

\* lines 200-202: strip a leading "_HOSTNAME="
HostnamePrefix == <<"_", "H", "O", "S", "T", "N", "A", "M", "E", "=">>

HostnameFragment(hostname) ==
    IF Len(hostname) >= 10 /\ SubSeq(hostname, 1, 10) = HostnamePrefix
    THEN StrFrom(hostname, 10)
    ELSE hostname

\* lines 207-213
ProcidFragment(procid) ==
    IF procid # 0 THEN <<"[">> \o ItoA(procid) \o <<"]", ":", " ">>
    ELSE <<"-", " ">>

\* line 176: the index of the last fragment in enum rfc5424
MSG == 9

\* line 179: the caller's array cannot hold the fragments
TooSmall_OffByOne(n_iovec) == n_iovec < MSG

TooSmall(n_iovec) == n_iovec < MSG + 1

\* The result of one call: the value returned, the fragments and the record
\* after the call.  ts is what strftime() rendered, empty when it returned 0.
syslog_fill_iovec(sm, n_iovec, ts) ==
    IF TooSmall(n_iovec) THEN [ret |-> -1, iovec |-> <<>>, sm |-> sm]
    ELSE LET pri == ClampPriority(sm.priority)
         IN  [ret |-> MSG + 1,
              iovec |-> << <<"<">> \o ItoA(pri) \o <<">", "1", " ">>,
                           IF ts = <<>> THEN <<"-", " ">> ELSE ts,
                           HostnameFragment(sm.hostname),
                           <<" ">>,
                           sm.appname,
                           <<" ">>,
                           ProcidFragment(sm.procid),
                           sm.msgid,
                           <<" ", "-", " ">>,
                           sm.message >>,
              sm |-> [sm EXCEPT !.priority = pri]]

----------------------------------------------------------------------------
(* server_process_syslog_message, up to server_dispatch_message *)

Field(key, value) == [key |-> key, value |-> value]

\* parse_pid() (basic/util.c): a decimal, positive pid, or an error
parse_pid(s) ==
    IF s # <<>> /\ (\A i \in 1..Len(s) : s[i] \in Digits) /\ AtoI(s) > 0
    THEN [err |-> FALSE, pid |-> AtoI(s)]
    ELSE [err |-> TRUE, pid |-> 0]

\* lines 444-447: the header parsers, in the order they are called
ParseHeader(buf, front) ==
    LET pr == syslog_parse_priority(buf, 0, LOG_USER + LOG_INFO)
        afterDate == syslog_skip_date(buf, pr.pos)
        id == syslog_parse_identifier(buf, afterDate, front)
    IN  [priority |-> pr.priority, identifier |-> id.identifier, pid |-> id.pid,
         pos |-> id.pos]

\* lines 439-488: the structured fields and the record built from one datagram
server_process_syslog_message(hostname, buf, front) ==
    LET h == ParseHeader(buf, front)
        text == StrFrom(buf, h.pos)
        sm0 == [syslog_init_message EXCEPT
                   !.hostname = IF hostname # <<>> THEN hostname ELSE @,
                   !.priority = h.priority,
                   !.appname = IF h.identifier # NullStr THEN h.identifier ELSE @,
                   !.procid = IF h.pid # NullStr THEN parse_pid(h.pid).pid ELSE @,
                   !.message = text]
    IN  [fields |->
             <<Field("_TRANSPORT", <<"s", "y", "s", "l", "o", "g">>),
               Field("PRIORITY", ItoA(LOG_PRI(h.priority)))>>
             \o (IF LOG_FAC(h.priority) # 0
                 THEN <<Field("SYSLOG_FACILITY", ItoA(LOG_FAC(h.priority)))>>
                 ELSE <<>>)
             \o (IF h.identifier # NullStr
                 THEN <<Field("SYSLOG_IDENTIFIER", h.identifier)>>
                 ELSE <<>>)
             \o (IF h.pid # NullStr THEN <<Field("SYSLOG_PID", h.pid)>> ELSE <<>>)
             \o <<Field("MESSAGE", text)>>,
         sm |-> sm0]

----------------------------------------------------------------------------
(* Inputs *)

SuDatagram ==
    <<"<", "3", "4", ">", "O", "c", "t", " ", "1", "1", " ", "2", "2", ":",
      "1", "4", ":", "1", "5", " ", "m", "y", "m", "a", "c", "h", "i",
      "n", "e", " ", "s", "u", "[", "1", "2", "3", "4", "]", ":", " ",
      "'", "s", "u", " ", "r", "o", "o", "t", "'", " ", "f", "a", "i",
      "l", "e", "d">>

\* the same line as a local sender writes it, without a host name
SuLocalDatagram ==
    <<"<", "3", "4", ">", "O", "c", "t", " ", "1", "1", " ", "2", "2", ":",
      "1", "4", ":", "1", "5", " ", "s", "u", "[", "1", "2", "3", "4",
      "]", ":", " ", "'", "s", "u", " ", "r", "o", "o", "t", "'", " ",
      "f", "a", "i", "l", "e", "d">>

Datagrams ==
    {SuDatagram, SuLocalDatagram,
     <<"n", "o", "c", "o", "l", "o", "n", " ", "h", "e", "l", "l", "o">>}

\* what strftime() renders; NullStr stands for a localtime_r() that failed
Timestamps ==
    {NullStr,
     <<"2", "0", "2", "6", "-", "1", "1", "-", "0", "1", "T", "0", "5", ":",
       "5", "7", ":", "0", "0", "+", "0", "0", "0", "0", " ">>}

\* Server.hostname_field, which the server rewrites when the host name changes
HostnameFields == {<<>>, <<"_", "H", "O", "S", "T", "N", "A", "M", "E", "=", "h">>}

\* outcomes of the sendmsg() on the remote socket
RemoteSendResults == {"OK", "ENETUNREACH"}

----------------------------------------------------------------------------
(* server_open_syslog_socket *)

\* the descriptor socket activation passes in, and the one socket() returns
SD_LISTEN_FDS_START == 3
SyslogFds == {-1, SD_LISTEN_FDS_START}

\* outcomes of the calls server_open_syslog_socket makes: socket() is the
\* descriptor returned, selinux is HAVE_SELINUX && mac_selinux_use(), the
\* others tell whether the call succeeded
SetupOutcomes ==
    [socket : SyslogFds, bind : BOOLEAN, passcred : BOOLEAN, selinux : BOOLEAN,
     passsec : BOOLEAN, timestamp : BOOLEAN, add_io : BOOLEAN]

\* lines 543-549: SO_PASSSEC is set only with SELinux in use, and its
\* failure is a warning
PassSecFatal_Yes(o) == o.selinux /\ ~o.passsec

PassSecFatal(o) == FALSE

PassSec(o) ==
    IF o.selinux THEN <<"setsockopt(SO_PASSSEC)">> ELSE <<>>

PassSecLog(o) ==
    IF o.selinux /\ ~o.passsec
    THEN <<[level |-> "warning", msg |-> "SO_PASSSEC failed: %m"]>> ELSE <<>>

\* lines 520-538: the socket is created and bound unless one was passed in
OpenOrAdopt(fd, o) ==
    IF fd < 0
    THEN IF o.socket < 0
         THEN [ok |-> FALSE, fd |-> o.socket, calls |-> <<"socket">>,
               logged |-> <<[level |-> "error", msg |-> "socket() failed: %m"]>>]
         ELSE IF ~o.bind
         THEN [ok |-> FALSE, fd |-> o.socket,
               calls |-> <<"socket", "unlink", "bind">>,
               logged |-> <<[level |-> "error", msg |-> "bind(%s) failed: %m"]>>]
         ELSE [ok |-> TRUE, fd |-> o.socket,
               calls |-> <<"socket", "unlink", "bind", "chmod">>,
               logged |-> <<>>]
    ELSE [ok |-> TRUE, fd |-> fd, calls |-> <<"fd_nonblock">>, logged |-> <<>>]

\* The result of one call with Server.syslog_fd = fd: the value returned
\* (-1 for any negative errno), the descriptor left in the Server, the
\* system calls made in order, and the lines logged.
server_open_syslog_socket(fd, o) ==
    LET a == OpenOrAdopt(fd, o)
        Fail(cs, ls, msg) ==
            [ret |-> -1, fd |-> a.fd, calls |-> cs,
             logged |-> ls \o <<[level |-> "error", msg |-> msg]>>]
        c1 == a.calls \o <<"setsockopt(SO_PASSCRED)">>
        c2 == c1 \o PassSec(o)
        c3 == c2 \o <<"setsockopt(SO_TIMESTAMP)">>
        c4 == c3 \o <<"sd_event_add_io">>
    IN  IF ~a.ok THEN [ret |-> -1, fd |-> a.fd, calls |-> a.calls, logged |-> a.logged]
        ELSE IF ~o.passcred THEN Fail(c1, <<>>, "SO_PASSCRED failed: %m")
        ELSE IF PassSecFatal(o) THEN Fail(c2, <<>>, "SO_PASSSEC failed: %m")
        ELSE IF ~o.timestamp THEN Fail(c3, PassSecLog(o), "SO_TIMESTAMP failed: %m")
        ELSE IF ~o.add_io
        THEN Fail(c4, PassSecLog(o), "Failed to add syslog server fd to event loop: %m")
        ELSE [ret |-> 0, fd |-> a.fd, calls |-> c4, logged |-> PassSecLog(o)]

----------------------------------------------------------------------------
(* The state machine.  The daemon first opens its ingestion socket and gives *)
(* up when that fails.  A handler runs in up to three steps: the entry point *)
(* up to its first relay send, forward_syslog_iovec, and                    *)
(* forward_remote_syslog_iovec.  No other handler starts before it is done. *)

NoMsg == [iovec |-> <<>>, ucred |-> NoCred]
NoDatagram == [buf |-> <<>>, localtime_ok |-> FALSE]
NoSetup == [ret |-> 0, calls |-> <<>>]
NoCall == [fn |-> "none"]

Init ==
    /\ n_forward_syslog_missed = 0
    /\ last_warn_forward_syslog_missed = 0
    /\ remote_syslog_fd = -1
    /\ remote_syslog_dest \in RemoteDests
    /\ forward_to_syslog \in BOOLEAN
    /\ forward_to_remote_syslog \in BOOLEAN
    /\ clock \in {0, WARN_FORWARD_SYSLOG_MISSED_USEC}
    /\ pc = "start"
    /\ cur = NoMsg
    /\ op = "none"
    /\ sent = <<>>
    /\ logged = <<>>
    /\ created = <<>>
    /\ received = NoDatagram
    /\ dispatched = <<>>
    /\ driver_messages = <<>>
    /\ n_eagain = 0
    /\ n_warn_non_inet = 0
    /\ syslog_fd \in SyslogFds
    /\ setup = NoSetup
    /\ call = NoCall
    /\ result = NoCall

config == <<remote_syslog_dest, forward_to_syslog, forward_to_remote_syslog>>
loss == <<n_forward_syslog_missed, last_warn_forward_syslog_missed,
          driver_messages, n_eagain>>
pure == <<call, result>>

\* lines 502-510 (and 280-284): which relay send comes next
AfterLocal_Exclusive ==
    IF forward_to_remote_syslog /\ ~forward_to_syslog THEN "forward_remote" ELSE "idle"

AfterLocal == IF forward_to_remote_syslog THEN "forward_remote" ELSE "idle"
AfterFill == IF forward_to_syslog THEN "forward_syslog" ELSE AfterLocal

\* the model stops taking messages when a counter reaches its bound
Bounded == n_forward_syslog_missed < MaxMissed /\ n_warn_non_inet < MaxWarn

\* line 429: ELEMENTSOF(iovec), N_IOVEC_META_FIELDS being 20
N_IOVEC == 26

\* what the state keeps of the sendmsg() calls of a step: the payload is
\* cur.iovec, and only its fragment count (msg_iovlen) is kept
Calls(s) ==
    [i \in 1..Len(s) |->
        [fd |-> s[i].fd, n_iovec |-> Len(s[i].iov), cred |-> s[i].cred,
         res |-> s[i].res]]

\* server_open_syslog_socket, called once when the daemon starts
OpenSyslogSocket(o) ==
    /\ pc = "start"
    /\ LET r == server_open_syslog_socket(syslog_fd, o)
       IN  /\ syslog_fd' = r.fd
           /\ setup' = [ret |-> r.ret, calls |-> r.calls]
           /\ logged' = r.logged
           /\ pc' = IF r.ret < 0 THEN "exit" ELSE "idle"
    /\ op' = "server_open_syslog_socket"
    /\ UNCHANGED <<config, loss, pure, remote_syslog_fd, clock, cur, sent, created,
                   received, dispatched, n_warn_non_inet>>

\* server_process_syslog_message, lines 439-500
ProcessSyslogMessage(buf, hostname_field, ucred, ts) ==
    /\ pc = "idle"
    /\ Bounded
    /\ LET m == server_process_syslog_message(hostname_field, buf, <<>>)
           f == syslog_fill_iovec(m.sm, N_IOVEC, ts)
       IN  /\ received' = [buf |-> buf, localtime_ok |-> ts # NullStr]
           /\ dispatched' = m.fields
           /\ IF ts # NullStr /\ f.ret > 0
              THEN pc' = AfterFill
                   /\ cur' = IF AfterFill = "idle" THEN NoMsg
                             ELSE [iovec |-> f.iovec, ucred |-> ucred]
              ELSE pc' = "idle" /\ cur' = NoMsg
    /\ op' = "server_process_syslog_message"
    /\ sent' = <<>>
    /\ logged' = <<>>
    /\ created' = <<>>
    /\ setup' = NoSetup
    /\ UNCHANGED <<config, loss, pure, remote_syslog_fd, clock, n_warn_non_inet,
                   syslog_fd>>

\* forward_syslog_iovec, called at line 503 or 281
ForwardSyslogIovec(r1, r2) ==
    /\ pc = "forward_syslog"
    /\ LET f == forward_syslog_iovec(n_forward_syslog_missed, cur.iovec, cur.ucred,
                                     r1, r2)
       IN  /\ n_forward_syslog_missed' = f.missed
           /\ sent' = Calls(f.sent)
           /\ logged' = f.logged
           /\ n_eagain' = IF f.sent[Len(f.sent)].res = "EAGAIN"
                          THEN n_eagain + 1 ELSE n_eagain
    /\ pc' = AfterLocal
    /\ cur' = IF AfterLocal = "idle" THEN NoMsg ELSE cur
    /\ op' = "forward_syslog_iovec"
    /\ created' = <<>>
    /\ received' = NoDatagram
    /\ dispatched' = <<>>
    /\ setup' = NoSetup
    /\ UNCHANGED <<config, pure, last_warn_forward_syslog_missed, driver_messages,
                   remote_syslog_fd, clock, n_warn_non_inet, syslog_fd>>

NonInetWarnings(lines) ==
    Cardinality({i \in 1..Len(lines) :
        lines[i].msg = "non AF_INET target for remote syslog forwarding configured. ignoring."})

\* forward_remote_syslog_iovec, called at line 510 or 284
ForwardRemoteSyslogIovec(newfd, r) ==
    /\ pc = "forward_remote"
    /\ LET f == forward_remote_syslog_iovec(remote_syslog_fd, remote_syslog_dest,
                                            cur.iovec, newfd, r)
       IN  /\ remote_syslog_fd' = f.fd
           /\ sent' = Calls(f.sent)
           /\ logged' = f.logged
           /\ created' = f.created
           /\ n_warn_non_inet' = n_warn_non_inet + NonInetWarnings(f.logged)
    /\ pc' = "idle"
    /\ cur' = NoMsg
    /\ op' = "forward_remote_syslog_iovec"
    /\ received' = NoDatagram
    /\ dispatched' = <<>>
    /\ setup' = NoSetup
    /\ UNCHANGED <<config, loss, pure, clock, syslog_fd>>

\* server_maybe_warn_forward_syslog_missed, called by the event loop
MaybeWarnForwardSyslogMissed ==
    /\ pc = "idle"
    /\ LET w == server_maybe_warn_forward_syslog_missed(
                    n_forward_syslog_missed, last_warn_forward_syslog_missed, clock)
       IN  /\ n_forward_syslog_missed' = w.missed
           /\ last_warn_forward_syslog_missed' = w.last
           /\ driver_messages' = driver_messages \o w.emitted
    /\ op' = "server_maybe_warn_forward_syslog_missed"
    /\ sent' = <<>>
    /\ logged' = <<>>
    /\ created' = <<>>
    /\ received' = NoDatagram
    /\ dispatched' = <<>>
    /\ setup' = NoSetup
    /\ UNCHANGED <<config, pure, remote_syslog_fd, clock, pc, cur, n_eagain,
                   n_warn_non_inet, syslog_fd>>

\* CLOCK_MONOTONIC advances
Tick(d) ==
    /\ pc = "idle"
    /\ clock + d <= MaxClock
    /\ clock' = clock + d
    /\ UNCHANGED <<config, loss, pure, remote_syslog_fd, pc, cur, op, sent, logged,
                   created, received, dispatched, n_warn_non_inet, syslog_fd, setup>>

Next ==
    \/ \E o \in SetupOutcomes : OpenSyslogSocket(o)
    \/ \E buf \in Datagrams, h \in HostnameFields, ucred \in Ucreds,
          ts \in Timestamps :
           ProcessSyslogMessage(buf, h, ucred, ts)
    \/ \E r1 \in SendResults, r2 \in SendResults : ForwardSyslogIovec(r1, r2)
    \/ \E newfd \in SocketResults, r \in RemoteSendResults :
           ForwardRemoteSyslogIovec(newfd, r)
    \/ MaybeWarnForwardSyslogMissed
    \/ \E d \in Deltas : Tick(d)

Spec == Init /\ [][Next]_vars

----------------------------------------------------------------------------
(* The parser and the synthesizer as functions: one call of                 *)
(* syslog_parse_identifier, syslog_skip_date or syslog_fill_iovec on        *)
(* arguments drawn from bounded sets, in a daemon that does nothing else.   *)

MaxStrLen == 4

\* the characters syslog_parse_identifier tells apart, and a plain one
IdentAlphabet == {"a", ":", "[", "]", " "}
Strings == UNION {[1..k -> IdentAlphabet] : k \in 0..MaxStrLen}

MyappLine ==
    <<"m", "y", "a", "p", "p", "[", "1", "2", "3", "]", ":", " ", "h", "e",
      "l", "l", "o">>
NestedLine == <<" ", "a", "[", "b", "[", "1", "]", "]", ":", " ", " ", "x">>
NoColonLine == <<"n", "o", "c", "o", "l", "o", "n", " ", "h", "e", "l", "l", "o">>

\* what may lie in memory in front of the buffer the cursor points into
Fronts == {<<>>, <<"x">>, <<"]">>, <<"[", "7", "]">>}

IdentifierCalls ==
    [fn : {"syslog_parse_identifier"},
     s : Strings \cup {MyappLine, NestedLine, NoColonLine},
     pos : {0}, front : Fronts]

DateLine ==
    <<"J", "a", "n", " ", " ", "1", " ", "0", "0", ":", "0", "0", ":", "0",
      "0", " ", "r", "e", "s", "t">>
DecLine ==
    <<"D", "e", "c", " ", "3", "1", " ", "2", "3", ":", "5", "9", ":", "5",
      "9", " ">>
GarbageLine == <<"g", "a", "r", "b", "a", "g", "e", " ", "t", "e", "x", "t">>

\* DateLine cut short, and DateLine with one character replaced
DateVariants ==
    {SubSeq(DateLine, 1, k) : k \in 0..Len(DateLine)}
    \cup {[DateLine EXCEPT ![i] = c] : i \in 1..Len(DateLine),
                                       c \in {"a", "1", " ", ":"}}

DateCalls ==
    [fn : {"syslog_skip_date"},
     s : DateVariants \cup {DecLine, GarbageLine, SuLocalDatagram},
     pos : {0, 4}]

\* line 244: assert(priority <= 999)
MaxPriority == 999

HelloText == <<"h", "e", "l", "l", "o">>

\* records as the callers build them: a fresh one with any priority, and
\* ones with the other members set
SyslogMessages ==
    {[syslog_init_message EXCEPT !.priority = p] : p \in 0..MaxPriority}
    \cup [priority : {0, 34, 191, 192, 999}, procid : {0, 1234},
          hostname : {Dash, <<"h">>, HostnamePrefix \o <<"h">>},
          appname : {Dash, <<"s", "u">>}, msgid : {Dash},
          message : {Dash, HelloText}]

FillCalls ==
    [fn : {"syslog_fill_iovec"}, sm : SyslogMessages,
     n_iovec : {0, MSG, MSG + 1, N_IOVEC},
     ts : {<<>>, <<"2", "0", "2", "6", " ">>}]

InitPure ==
    /\ n_forward_syslog_missed = 0
    /\ last_warn_forward_syslog_missed = 0
    /\ remote_syslog_fd = -1
    /\ remote_syslog_dest = [addr |-> "INADDR_NONE", family |-> "AF_INET"]
    /\ forward_to_syslog = FALSE
    /\ forward_to_remote_syslog = FALSE
    /\ clock = 0
    /\ pc = "idle"
    /\ cur = NoMsg
    /\ op = "none"
    /\ sent = <<>>
    /\ logged = <<>>
    /\ created = <<>>
    /\ received = NoDatagram
    /\ dispatched = <<>>
    /\ driver_messages = <<>>
    /\ n_eagain = 0
    /\ n_warn_non_inet = 0
    /\ syslog_fd = SD_LISTEN_FDS_START
    /\ setup = NoSetup
    /\ call \in IdentifierCalls \cup DateCalls \cup FillCalls
    /\ result = NoCall

server == <<config, loss, remote_syslog_fd, clock, pc, cur, op, sent, logged,
            created, received, dispatched, n_warn_non_inet, syslog_fd, setup>>

\* syslog_parse_identifier(&buf, &identifier, &pid)
ParseIdentifier ==
    /\ call.fn = "syslog_parse_identifier"
    /\ result = NoCall
    /\ result' = syslog_parse_identifier(call.s, call.pos, call.front)
    /\ UNCHANGED <<server, call>>

\* syslog_skip_date(&buf)
SkipDate ==
    /\ call.fn = "syslog_skip_date"
    /\ result = NoCall
    /\ result' = [pos |-> syslog_skip_date(call.s, call.pos)]
    /\ UNCHANGED <<server, call>>

\* syslog_fill_iovec(&sm, iovec, &n_iovec)
FillIovec ==
    /\ call.fn = "syslog_fill_iovec"
    /\ result = NoCall
    /\ result' = syslog_fill_iovec(call.sm, call.n_iovec, call.ts)
    /\ UNCHANGED <<server, call>>

NextPure ==
    \/ ParseIdentifier
    \/ SkipDate
    \/ FillIovec

SpecPure == InitPure /\ [][NextPure]_vars

----------------------------------------------------------------------------
(* Properties of the local relay send *)

LocalSendStep == \E r1 \in SendResults, r2 \in SendResults : ForwardSyslogIovec(r1, r2)
RemoteSendStep ==
    \E newfd \in SocketResults, r \in RemoteSendResults :
        ForwardRemoteSyslogIovec(newfd, r)

PermissionError(e) == e \in {"EPERM", "ESRCH"}
DebugLines(lines) == {i \in 1..Len(lines) : lines[i].level = "debug"}

\* C1: every call of forward_syslog_iovec makes one or two sendmsg() calls and
\* then returns; the second is made if and only if the first failed with
\* EPERM or ESRCH and credentials were supplied, and it carries the daemon's
\* own pid with the caller's uid and gid.
C1_BoundedRetry ==
    [][LocalSendStep =>
         /\ Len(sent') \in {1, 2}
         /\ sent'[1].cred = cur.ucred
         /\ Len(sent') = 2 <=> (PermissionError(sent'[1].res) /\ ~cur.ucred.null)
         /\ Len(sent') = 2 =>
               /\ sent'[2].cred.pid = DaemonPid
               /\ sent'[2].cred.uid = cur.ucred.uid
               /\ sent'[2].cred.gid = cur.ucred.gid
               /\ ~sent'[2].cred.null
         /\ pc' # "forward_syslog"]_vars

C1_Witness ==
    /\ op = "forward_syslog_iovec"
    /\ Len(sent) = 2
    /\ sent[1].res = "ESRCH" /\ sent[1].cred = Cred(1234, 1000, 100)
    /\ sent[2].res = "EPERM" /\ sent[2].cred = Cred(DaemonPid, 1000, 100)

\* C2: one call changes the Loss Counter by exactly +1 when its last
\* sendmsg() failed with EAGAIN and by 0 otherwise; a first sendmsg() that
\* failed with EAGAIN is not retried.
C2_LossCountedOnce ==
    [][LocalSendStep =>
         /\ n_forward_syslog_missed' =
               n_forward_syslog_missed
               + (IF sent'[Len(sent')].res = "EAGAIN" THEN 1 ELSE 0)
         /\ sent'[1].res = "EAGAIN" => Len(sent') = 1]_vars

C2_Witness ==
    /\ op = "forward_syslog_iovec"
    /\ Len(sent) = 2
    /\ sent[2].res = "EAGAIN"
    /\ n_forward_syslog_missed = 2
    /\ n_eagain = 2

\* C3 as stated: a credential retry that fails with anything but EAGAIN logs
\* nothing and leaves the Loss Counter unchanged.
C3_RetryFailureSilent ==
    [][(LocalSendStep /\ Len(sent') = 2 /\ sent'[2].res \notin {"OK", "EAGAIN"}) =>
         /\ logged' = <<>>
         /\ n_forward_syslog_missed' = n_forward_syslog_missed]_vars

\* C3, amended: a credential retry that fails with anything but EAGAIN leaves
\* the Loss Counter unchanged; it logs nothing when the retry failed with
\* ENOENT, and exactly one debug line carrying the retry's error otherwise.
C3_RetryFailureLogged ==
    [][(LocalSendStep /\ Len(sent') = 2 /\ sent'[2].res \notin {"OK", "EAGAIN"}) =>
         /\ n_forward_syslog_missed' = n_forward_syslog_missed
         /\ sent'[2].res = "ENOENT" => logged' = <<>>
         /\ sent'[2].res # "ENOENT" =>
               /\ Len(logged') = 1
               /\ logged'[1].level = "debug"
               /\ logged'[1].errno = sent'[2].res]_vars

C3_Witness ==
    /\ op = "forward_syslog_iovec"
    /\ Len(sent) = 2
    /\ sent[2].res = "ECONNREFUSED"
    /\ Len(logged) = 1 /\ logged[1].level = "debug" /\ logged[1].errno = "ECONNREFUSED"

\* C4: a first sendmsg() that fails with ENOENT gives no log line, no retry
\* and no Loss Counter change; one that fails with an error other than
\* EAGAIN, ENOENT or (with credentials) EPERM/ESRCH gives exactly one debug
\* line and no retry.
C4_FirstFailure ==
    [][LocalSendStep =>
         /\ sent'[1].res = "ENOENT" =>
               /\ logged' = <<>>
               /\ Len(sent') = 1
               /\ n_forward_syslog_missed' = n_forward_syslog_missed
         /\ (/\ sent'[1].res \notin {"OK", "EAGAIN", "ENOENT"}
             /\ ~(PermissionError(sent'[1].res) /\ ~cur.ucred.null)) =>
               /\ Len(logged') = 1
               /\ DebugLines(logged') = {1}
               /\ Len(sent') = 1]_vars

C4_Witness ==
    /\ op = "forward_syslog_iovec"
    /\ Len(sent) = 1
    /\ sent[1].res = "EPERM" /\ sent[1].cred.null
    /\ Len(logged) = 1 /\ logged[1].level = "debug"

----------------------------------------------------------------------------
(* Properties of the loss-warning throttle *)

LossDiagnostic(value, time) ==
    [id |-> "SD_MESSAGE_FORWARD_SYSLOG_MISSED", value |-> value, time |-> time]

Elapsed == clock - last_warn_forward_syslog_missed

\* C5: one call of server_maybe_warn_forward_syslog_missed does exactly one
\* of: counter = 0, nothing changes and nothing is emitted; counter > 0 and
\* fewer than 30 s elapsed since last-warned, nothing changes and nothing is
\* emitted; counter > 0 and at least 30 s elapsed, exactly one diagnostic
\* carrying the counter's value is emitted, the counter becomes 0 and
\* last-warned becomes the current time.
C5_ThrottleCases ==
    [][MaybeWarnForwardSyslogMissed =>
         IF n_forward_syslog_missed > 0
            /\ Elapsed >= WARN_FORWARD_SYSLOG_MISSED_USEC
         THEN /\ driver_messages' =
                    Append(driver_messages,
                           LossDiagnostic(n_forward_syslog_missed, clock))
              /\ n_forward_syslog_missed' = 0
              /\ last_warn_forward_syslog_missed' = clock
         ELSE /\ driver_messages' = driver_messages
              /\ n_forward_syslog_missed' = n_forward_syslog_missed
              /\ last_warn_forward_syslog_missed' = last_warn_forward_syslog_missed]_vars

\* a warning emitted exactly 30 s after the one before it
C5_Witness ==
    /\ op = "server_maybe_warn_forward_syslog_missed"
    /\ Len(driver_messages) = 2
    /\ driver_messages[2].time
          = driver_messages[1].time + WARN_FORWARD_SYSLOG_MISSED_USEC
    /\ driver_messages[2].value = 2
    /\ n_forward_syslog_missed = 0
    /\ last_warn_forward_syslog_missed = clock

\* C6: any two loss diagnostics are at least 30 s apart.
C6_WarningsSpaced ==
    \A i \in 1..Len(driver_messages) : \A j \in 1..Len(driver_messages) :
        i < j =>
            driver_messages[j].time - driver_messages[i].time
                >= WARN_FORWARD_SYSLOG_MISSED_USEC

\* two warnings 30 s apart, then more losses and a throttle call that stays
\* silent
C6_Witness ==
    /\ Len(driver_messages) = 2
    /\ driver_messages[1].time = WARN_FORWARD_SYSLOG_MISSED_USEC
    /\ driver_messages[2].time = 2 * WARN_FORWARD_SYSLOG_MISSED_USEC
    /\ op = "server_maybe_warn_forward_syslog_missed"
    /\ n_forward_syslog_missed > 0

RECURSIVE SumValues(_)
SumValues(msgs) ==
    IF msgs = <<>> THEN 0 ELSE msgs[1].value + SumValues(Tail(msgs))

\* C7: the values carried by all loss diagnostics so far plus the current
\* Loss Counter equal the number of local sends that ended in EAGAIN; while
\* no diagnostic has fired the counter is that number.
C7_LossAccounting ==
    /\ SumValues(driver_messages) + n_forward_syslog_missed = n_eagain
    /\ driver_messages = <<>> => n_forward_syslog_missed = n_eagain

\* N = 2 sends dropped, then one diagnostic carrying 2
C7_Witness ==
    /\ op = "server_maybe_warn_forward_syslog_missed"
    /\ n_eagain = 2
    /\ driver_messages = <<LossDiagnostic(2, clock)>>
    /\ n_forward_syslog_missed = 0

----------------------------------------------------------------------------
(* Properties of the remote forwarder *)

NoRemoteTarget ==
    remote_syslog_dest.addr = "INADDR_NONE" \/ remote_syslog_dest.family # "AF_INET"

\* C8: with no remote target or a target that is not AF_INET, a remote
\* forward creates no socket and sends nothing, and the non-AF_INET warning
\* is logged at most once in the run.
C8_WarnedOnce ==
    NoRemoteTarget =>
        /\ n_warn_non_inet <= 1
        /\ op = "forward_remote_syslog_iovec" => sent = <<>> /\ created = <<>>

\* C9: a remote forward makes at most one sendmsg(), leaves the Loss Counter
\* and the last-warned timestamp unchanged and emits no loss diagnostic.
C9_RemoteIsolated ==
    [][RemoteSendStep =>
         /\ Len(sent') <= 1
         /\ n_forward_syslog_missed' = n_forward_syslog_missed
         /\ last_warn_forward_syslog_missed' = last_warn_forward_syslog_missed
         /\ driver_messages' = driver_messages]_vars

\* a failed remote send while losses are pending
C9_Witness ==
    /\ op = "forward_remote_syslog_iovec"
    /\ Len(sent) = 1
    /\ sent[1].res = "ENETUNREACH"
    /\ n_forward_syslog_missed > 0

----------------------------------------------------------------------------
(* Properties of server_process_syslog_message *)

HasField(fields, key) == \E i \in 1..Len(fields) : fields[i].key = key
FieldValue(fields, key) ==
    IF HasField(fields, key)
    THEN fields[CHOOSE i \in 1..Len(fields) : fields[i].key = key].value
    ELSE NullStr

SuText ==
    <<"'", "s", "u", " ", "r", "o", "o", "t", "'", " ", "f", "a", "i", "l", "e", "d">>
Frame34 == <<"<", "3", "4", ">", "1", " ">>

Processed(buf) ==
    op = "server_process_syslog_message" /\ received.buf = buf

\* lines 490-503: the frame is handed to the local relay send when local
\* forwarding is enabled and localtime_r() succeeded
FrameHandedOn(first) ==
    /\ (forward_to_syslog /\ received.localtime_ok) <=> pc = "forward_syslog"
    /\ pc = "forward_syslog" => Len(cur.iovec) = 10 /\ cur.iovec[1] = first

\* C10 as stated: the datagram
\* "<34>Oct 11 22:14:15 mymachine su[1234]: 'su root' failed" is dispatched
\* with facility 4, severity 2, identifier "su", pid "1234" and message
\* "'su root' failed", and the frame handed to the local relay send begins
\* "<34>1 ".
C10_EndToEnd ==
    Processed(SuDatagram) =>
        /\ FieldValue(dispatched, "SYSLOG_FACILITY") = <<"4">>
        /\ FieldValue(dispatched, "PRIORITY") = <<"2">>
        /\ FieldValue(dispatched, "SYSLOG_IDENTIFIER") = <<"s", "u">>
        /\ FieldValue(dispatched, "SYSLOG_PID") = <<"1", "2", "3", "4">>
        /\ FieldValue(dispatched, "MESSAGE") = SuText
        /\ pc = "forward_syslog" => cur.iovec[1] = Frame34

\* C10, amended: that datagram is dispatched with facility 4 and severity 2,
\* without identifier and without pid, and with the message
\* "mymachine su[1234]: 'su root' failed" (the token after the date is the
\* host name, which does not end in ':'); when local forwarding is enabled
\* and the timestamp conversion succeeds, a frame of 10 fragments beginning
\* "<34>1 " is handed to the local relay send, which sends all 10.  The same
\* datagram without the host name is dispatched with identifier "su", pid
\* "1234" and message "'su root' failed".
C10_EndToEndHostname ==
    /\ [](Processed(SuDatagram) =>
            /\ FieldValue(dispatched, "SYSLOG_FACILITY") = <<"4">>
            /\ FieldValue(dispatched, "PRIORITY") = <<"2">>
            /\ ~HasField(dispatched, "SYSLOG_IDENTIFIER")
            /\ ~HasField(dispatched, "SYSLOG_PID")
            /\ FieldValue(dispatched, "MESSAGE") = StrFrom(SuDatagram, 20)
            /\ FrameHandedOn(Frame34))
    /\ [](Processed(SuLocalDatagram) =>
            /\ FieldValue(dispatched, "SYSLOG_FACILITY") = <<"4">>
            /\ FieldValue(dispatched, "PRIORITY") = <<"2">>
            /\ FieldValue(dispatched, "SYSLOG_IDENTIFIER") = <<"s", "u">>
            /\ FieldValue(dispatched, "SYSLOG_PID") = <<"1", "2", "3", "4">>
            /\ FieldValue(dispatched, "MESSAGE") = SuText
            /\ FrameHandedOn(Frame34))
    /\ [][pc = "forward_syslog" =>
            /\ Len(sent') >= 1
            /\ \A i \in 1..Len(sent') :
                  sent'[i].fd = "syslog_fd" /\ sent'[i].n_iovec = Len(cur.iovec)]_vars

\* the host name datagram dispatched, its frame about to be sent locally
C10_Witness ==
    /\ Processed(SuDatagram)
    /\ FieldValue(dispatched, "MESSAGE") = StrFrom(SuDatagram, 20)
    /\ FieldValue(dispatched, "MESSAGE")[1] = "m"
    /\ ~HasField(dispatched, "SYSLOG_IDENTIFIER")
    /\ pc = "forward_syslog"
    /\ cur.iovec[1] = Frame34

----------------------------------------------------------------------------
(* Properties of syslog_parse_identifier *)

Returned(fn) == call.fn = fn /\ result # NoCall

\* the first whitespace-delimited token at the cursor of the call
TokenStart == call.pos + strspn(call.s, call.pos, WHITESPACE)
TokenLen == strcspn(call.s, TokenStart, WHITESPACE)
Token == StrNDup(call.s, TokenStart, TokenLen)
ColonTerminated == TokenLen >= 1 /\ Token[TokenLen] = ":"

\* C11: when the first token has length <= 1 (the lone ":" included) or does
\* not end in ':', syslog_parse_identifier returns 0, sets neither identifier
\* nor pid, and leaves the cursor where it was.
C11_NoHeaderNoEffect ==
    Returned("syslog_parse_identifier") /\ (TokenLen <= 1 \/ ~ColonTerminated)
        => /\ ~result.crashed
           /\ result.ret = 0
           /\ result.identifier = NullStr
           /\ result.pid = NullStr
           /\ result.pos = call.pos

\* the token without its colon, and the last '[' in it (0 when there is none)
TokenBody == SubSeq(Token, 1, TokenLen - 1)
EndsInBracket == TokenBody # <<>> /\ TokenBody[Len(TokenBody)] = "]"
Opens == {i \in 1..Len(TokenBody) : TokenBody[i] = "["}
LastOpen == IF Opens = {} THEN 0 ELSE CHOOSE i \in Opens : \A j \in Opens : j <= i
TrailingSpace == strspn(call.s, TokenStart + TokenLen, WHITESPACE)

\* C12: on a colon-terminated first token, when the token without its colon
\* ends in ']' and contains a '[', pid is the text between the last '[' and
\* that ']' and identifier is everything before that '['; otherwise
\* identifier is the token without its colon and pid is not set.  The cursor
\* ends past leading whitespace, token and trailing whitespace, and the value
\* returned is the token length plus the trailing whitespace.
C12_HeaderSplit ==
    Returned("syslog_parse_identifier") /\ ColonTerminated
        => /\ ~result.crashed
           /\ IF EndsInBracket /\ Opens # {}
              THEN /\ result.pid = SubSeq(TokenBody, LastOpen + 1, Len(TokenBody) - 1)
                   /\ result.identifier = SubSeq(TokenBody, 1, LastOpen - 1)
              ELSE /\ result.pid = NullStr
                   /\ result.identifier = TokenBody
           /\ result.pos = TokenStart + TokenLen + TrailingSpace
           /\ result.ret = TokenLen + TrailingSpace

----------------------------------------------------------------------------
(* Properties of syslog_skip_date *)

\* the "Mmm dd hh:mm:ss " prefix, position by position: 3 letters, space,
\* space-or-digit, digit, space, space-or-digit, digit, ':', space-or-digit,
\* digit, ':', space-or-digit, digit, space
Sp == {" "}
SpDigit == Sp \cup Digits
DatePattern ==
    <<Letters, Letters, Letters, Sp, SpDigit, Digits, Sp, SpDigit, Digits,
      {":"}, SpDigit, Digits, {":"}, SpDigit, Digits, Sp>>

\* how many leading positions of the pattern the text at the cursor matches
RECURSIVE MatchedFrom(_)
MatchedFrom(i) ==
    IF i < Len(DatePattern) /\ call.pos + i < Len(call.s)
       /\ call.s[call.pos + i + 1] \in DatePattern[i + 1]
    THEN MatchedFrom(i + 1) ELSE i
Matched == MatchedFrom(0)
DatePrefixAtCursor == Matched = Len(DatePattern)

RestText == <<"r", "e", "s", "t">>

\* C13: syslog_skip_date is all-or-nothing: the cursor after the call is the
\* original cursor whenever a position of the date pattern fails its class or
\* the input ends early, and otherwise points just past the complete date
\* prefix; "Jan  1 00:00:00 rest" leaves it at "rest", "garbage text"
\* leaves it unchanged.
C13_AllOrNothing ==
    Returned("syslog_skip_date")
        => /\ result.pos \in {call.pos, call.pos + Len(DatePattern)}
           /\ ~DatePrefixAtCursor => result.pos = call.pos
           /\ result.pos # call.pos => DatePrefixAtCursor
           /\ call.s = DateLine /\ call.pos = 0
                  => StrFrom(call.s, result.pos) = RestText
           /\ call.s = GarbageLine => result.pos = call.pos

\* the pattern fails at its last position only, and nothing is consumed
C13_Witness ==
    /\ Returned("syslog_skip_date")
    /\ Matched = Len(DatePattern) - 1
    /\ result.pos = call.pos

\* C18 as stated: a matching date prefix advances the cursor by exactly 15
\* positions, anything else by 0.
C18_Advance15 ==
    Returned("syslog_skip_date")
        => result.pos - call.pos = IF DatePrefixAtCursor THEN 15 ELSE 0

\* C18: a matching date prefix advances the cursor by exactly 16 positions
\* (one for each entry of the pattern, the trailing space included), anything
\* else by 0.
C18_Advance16 ==
    Returned("syslog_skip_date")
        => result.pos - call.pos = IF DatePrefixAtCursor THEN 16 ELSE 0

\* "Jan  1 00:00:00 rest" behind a "<34>"-long prefix: 16 positions consumed
C18_Witness ==
    /\ Returned("syslog_skip_date")
    /\ DatePrefixAtCursor
    /\ call.pos = 4
    /\ result.pos = call.pos + 16

----------------------------------------------------------------------------
(* Properties of syslog_fill_iovec *)

Rendered == Returned("syslog_fill_iovec") /\ result.ret > 0

\* C14: for every record priority in 0..999, after a call that renders the
\* record the priority has facility (priority >> 3) <= 23 and the severity
\* bits (priority & 7) it had; a priority whose facility was <= 23 is
\* unchanged and a larger facility becomes 23, so the rendered priority is in
\* 0..191, and clamping the clamped record again changes nothing.
C14_FacilityClamp ==
    Rendered /\ call.sm.priority \in 0..MaxPriority
        => LET before == call.sm.priority
               after == result.sm.priority
               again == syslog_fill_iovec(result.sm, call.n_iovec, call.ts)
           IN  /\ after \div 8 <= 23
               /\ after % 8 = before % 8
               /\ before \div 8 <= 23 => after = before
               /\ before \div 8 > 23 => after \div 8 = 23
               /\ after \in 0..191
               /\ result.iovec[1] = <<"<">> \o ItoA(after) \o <<">", "1", " ">>
               /\ again.sm = result.sm
               /\ again.iovec = result.iovec

\* facility 40, severity 3 is rendered as facility 23, severity 3
C14_Witness ==
    /\ Rendered
    /\ call.sm.priority = 40 * 8 + 3
    /\ result.sm.priority = 23 * 8 + 3
    /\ result.iovec[1] = <<"<", "1", "8", "7", ">", "1", " ">>

\* the fragments of a freshly initialized record
FreshFragments(ts) ==
    << <<"<", "1", "4", ">", "1", " ">>,
       IF ts = <<>> THEN <<"-", " ">> ELSE ts,
       <<"-">>, <<" ">>, <<"-">>, <<" ">>, <<"-", " ">>, <<"-">>,
       <<" ", "-", " ">>, <<"-">> >>

StartsWith(s, prefix) ==
    Len(s) >= Len(prefix) /\ SubSeq(s, 1, Len(prefix)) = prefix

\* C15: with a capacity of 10 or more syslog_fill_iovec returns exactly 10
\* fragments in the order priority+version, timestamp, hostname, " ",
\* app-name, " ", proc-id, msg-id, " - ", message; with a smaller capacity it
\* fails, produces no fragment and leaves the record as it was.  A freshly
\* initialized record yields "<14>1 ", timestamp or "- ", "-", " ", "-", " ",
\* "- ", "-", " - ", "-".
C15_TenFragments ==
    Returned("syslog_fill_iovec")
        => IF call.n_iovec >= 10
           THEN LET v == result.iovec
                    sm == call.sm
                IN  /\ result.ret = 10
                    /\ Len(v) = 10
                    /\ StartsWith(v[1], <<"<">>)
                    /\ SubSeq(v[1], Len(v[1]) - 2, Len(v[1])) = <<">", "1", " ">>
                    /\ v[2] = IF call.ts = <<>> THEN <<"-", " ">> ELSE call.ts
                    /\ IF StartsWith(sm.hostname, HostnamePrefix)
                       THEN HostnamePrefix \o v[3] = sm.hostname
                       ELSE v[3] = sm.hostname
                    /\ v[4] = <<" ">>
                    /\ v[5] = sm.appname
                    /\ v[6] = <<" ">>
                    /\ v[7] = IF sm.procid = 0 THEN <<"-", " ">>
                              ELSE <<"[">> \o ItoA(sm.procid) \o <<"]", ":", " ">>
                    /\ v[8] = sm.msgid
                    /\ v[9] = <<" ", "-", " ">>
                    /\ v[10] = sm.message
                    /\ sm = syslog_init_message => v = FreshFragments(call.ts)
           ELSE /\ result.ret < 0
                /\ result.iovec = <<>>
                /\ result.sm = call.sm

\* a capacity of 9: the call fails and the out-of-range priority stays
C15_Witness ==
    /\ Returned("syslog_fill_iovec")
    /\ call.n_iovec = 9
    /\ call.sm.priority = MaxPriority
    /\ result.ret < 0
    /\ result.sm.priority = MaxPriority

----------------------------------------------------------------------------
(* Properties of server_open_syslog_socket *)

Called(calls, name) == \E i \in 1..Len(calls) : calls[i] = name
IndexOf(calls, name) == CHOOSE i \in 1..Len(calls) : calls[i] = name

\* the failures the call may meet, given whether a descriptor was passed in:
\* socket() and bind() are made only without one
FatalFailure(had, o) ==
    \/ ~had /\ (o.socket < 0 \/ ~o.bind)
    \/ ~o.passcred
    \/ ~o.timestamp
    \/ ~o.add_io

\* C16: server_open_syslog_socket returns an error if and only if socket(),
\* bind(), SO_PASSCRED, SO_TIMESTAMP or the event-loop registration fails; a
\* failing SO_PASSSEC alone never does.  With a descriptor present on entry
\* it is kept and no socket(), unlink() or bind() is made; without one the
\* stale path is unlinked right before the bind().
C16_SetupFatal ==
    [][\A o \in SetupOutcomes :
          OpenSyslogSocket(o)
              => LET had == syslog_fd >= 0
                     calls == setup'.calls
                 IN  /\ setup'.ret < 0 <=> FatalFailure(had, o)
                     /\ had => /\ syslog_fd' = syslog_fd
                               /\ ~Called(calls, "socket")
                               /\ ~Called(calls, "unlink")
                               /\ ~Called(calls, "bind")
                     /\ ~had => Called(calls, "socket")
                     /\ ~had /\ o.socket >= 0
                            => /\ Called(calls, "bind")
                               /\ IndexOf(calls, "unlink") + 1 = IndexOf(calls, "bind")
                               /\ IndexOf(calls, "socket") < IndexOf(calls, "unlink")]_vars

\* a socket is created and bound, SO_PASSSEC fails, and the setup succeeds
C16_Witness ==
    /\ op = "server_open_syslog_socket"
    /\ setup.ret = 0
    /\ Called(setup.calls, "bind")
    /\ Called(setup.calls, "setsockopt(SO_PASSSEC)")
    /\ \E i \in 1..Len(logged) : logged[i].msg = "SO_PASSSEC failed: %m"
    /\ pc = "idle"

----------------------------------------------------------------------------
(* Properties of the remote handle *)

\* C17: the remote handle is opened at most once and is then immutable: once
\* a socket() has succeeded, with whatever valid descriptor, no step changes
\* the handle, no later remote forward creates another socket, and every
\* later remote send goes to that handle.
C17_OpenedOnce ==
    [][remote_syslog_fd >= 0
          => /\ remote_syslog_fd' = remote_syslog_fd
             /\ pc = "forward_remote"
                    => /\ \A i \in 1..Len(created') : created'[i] < 0
                       /\ \A i \in 1..Len(sent') : sent'[i].fd = remote_syslog_fd]_vars

----------------------------------------------------------------------------
(* Ownership of the loss state *)

LossChanged ==
    \/ n_forward_syslog_missed' # n_forward_syslog_missed
    \/ last_warn_forward_syslog_missed' # last_warn_forward_syslog_missed

\* C19 as stated: the Loss Counter and the last-warned timestamp are mutated
\* only by forward_syslog_iovec and server_open_syslog_socket, and
\* server_maybe_warn_forward_syslog_missed only reads them.
C19_SetupOwnsLoss ==
    [][/\ LossChanged => pc \in {"forward_syslog", "start"}
       /\ MaybeWarnForwardSyslogMissed => ~LossChanged]_vars

\* C19: the Loss Counter and the last-warned timestamp are mutated only by
\* forward_syslog_iovec, which adds one to the counter, and by
\* server_maybe_warn_forward_syslog_missed, which on emitting a warning
\* resets the counter and sets the timestamp to the current time;
\* server_open_syslog_socket and every other operation (remote forward,
\* parser, synthesizer) leave both unchanged.
C19_LossOwnership ==
    [][/\ n_forward_syslog_missed' # n_forward_syslog_missed
            => \/ pc = "forward_syslog"
                  /\ n_forward_syslog_missed' = n_forward_syslog_missed + 1
               \/ MaybeWarnForwardSyslogMissed /\ n_forward_syslog_missed' = 0
       /\ last_warn_forward_syslog_missed' # last_warn_forward_syslog_missed
            => /\ MaybeWarnForwardSyslogMissed
               /\ n_forward_syslog_missed > 0
               /\ n_forward_syslog_missed' = 0
               /\ last_warn_forward_syslog_missed' = clock
       /\ pc \in {"start", "forward_remote"} => ~LossChanged
       /\ pc = "idle" /\ ~MaybeWarnForwardSyslogMissed => ~LossChanged]_vars

\* the throttle has reset the counter and stamped the time, after a setup
\* that created the socket
C19_Witness ==
    /\ op = "server_maybe_warn_forward_syslog_missed"
    /\ syslog_fd >= 0
    /\ driver_messages # <<>>
    /\ driver_messages[Len(driver_messages)].time = clock
    /\ n_forward_syslog_missed = 0
    /\ last_warn_forward_syslog_missed = clock
    /\ clock > 0

----------------------------------------------------------------------------
(* The order of dispatch and relay sends in server_process_syslog_message *)

TenFragments(calls) == \A i \in 1..Len(calls) : calls[i].n_iovec = 10

\* C20: for a datagram whose localtime_r() succeeds the fields are dispatched
\* once, in the first step and before any relay send; forward_syslog_iovec
\* is then called if and only if forward_to_syslog is set, and
\* forward_remote_syslog_iovec if and only if forward_to_remote_syslog is
\* set, whatever the other flag and the outcome of the local send; both are
\* handed the same 10 fragments, the local one first.
C20_DispatchThenRelay ==
    /\ [](op = "server_process_syslog_message" /\ received.localtime_ok
            => /\ dispatched # <<>>
               /\ sent = <<>>
               /\ pc = IF forward_to_syslog THEN "forward_syslog"
                       ELSE IF forward_to_remote_syslog THEN "forward_remote"
                       ELSE "idle"
               /\ pc # "idle" => Len(cur.iovec) = 10)
    /\ [](pc = "forward_syslog"
            => forward_to_syslog /\ op = "server_process_syslog_message")
    /\ [](pc = "forward_remote"
            => /\ forward_to_remote_syslog
               /\ IF forward_to_syslog THEN op = "forward_syslog_iovec"
                  ELSE op = "server_process_syslog_message")
    /\ [][pc = "forward_syslog"
            => /\ op' = "forward_syslog_iovec"
               /\ sent' # <<>>
               /\ TenFragments(sent')
               /\ dispatched' = <<>>
               /\ pc' = IF forward_to_remote_syslog THEN "forward_remote" ELSE "idle"
               /\ pc' = "forward_remote" => cur' = cur]_vars
    /\ [][pc = "forward_remote"
            => /\ op' = "forward_remote_syslog_iovec"
               /\ TenFragments(sent')
               /\ dispatched' = <<>>
               /\ pc' = "idle"]_vars

\* the local send was dropped on EAGAIN, and the remote send of the same
\* fragments is up next
C20_Witness ==
    /\ pc = "forward_remote"
    /\ op = "forward_syslog_iovec"
    /\ sent[Len(sent)].res = "EAGAIN"
    /\ Len(cur.iovec) = 10
    /\ forward_to_syslog /\ forward_to_remote_syslog

====
